---- MODULE Spec2Model ----
(***************************************************************************)
(* Analysis Job Engine of the Customer Analytics Platform:                 *)
(*   backend/app/api/routes.py          job endpoints, background handlers *)
(*   backend/app/services/analysis_service.py   the two pipelines          *)
(*   backend/app/database/models.py     the stored tables                  *)
(*                                                                         *)
(* Storage is modelled as the committed tables plus, for every background  *)
(* handler, its own SQLAlchemy session: the row updates the session has    *)
(* executed but not committed, and whether its transaction was invalidated *)
(* by a failed commit.  A commit publishes everything pending at once.     *)
(***************************************************************************)
EXTENDS Integers, Sequences, FiniteSets, TLC

\* ------------------------------------------------------------------ bounds
MaxJobs == 2
MaxRecords == 2
MaxK == 2
MaxFeatures == 3

JobIds == 1..MaxJobs
RecordIds == 1..MaxRecords

\* -------------------------------------------------------- values and tables
None == "None"
\* SQL NULL of an Integer column, of a DateTime column, of the JSON column
NullLabel == -1
NullTime == 0
NullJson == <<>>
\* a NULL of a number column arrives in the DataFrame as NaN
NaN == -1

\* table datasets (models.py Dataset): dataset 1 of company 1, dataset 2 of
\* company 2; no dataset has id 3
Datasets == {[id |-> 1, company_id |-> 1], [id |-> 2, company_id |-> 2]}

\* requests the model issues.  Static: <<company_id, dataset_id>>, the owner's
\* request, another company's request for the same dataset, and a dataset id
\* that does not exist.  Jobs are requested for dataset 1 only; the rows of
\* dataset 2 are the rows no job may touch.
StaticRequests == {<<1, 1>>, <<2, 1>>, <<1, 3>>}
DynamicDatasetIds == {1, 3}

\* requested attribute lists of dynamic jobs (DynamicAnalysisRequest.features)
FeatureRequests ==
    { <<"NotARealAttribute">>,
      <<"Age", "NotARealAttribute", "Gender">> }
KRequests == 0..MaxK
\* <<annual_income, spending_score>> of the live prediction requests
PredictionRequests == {<<1, 2>>, <<7, 8>>}

\* the uploaded rows: attribute values of record r (columns of CustomerData)
GenderOf(r) == IF r % 2 = 1 THEN "Male" ELSE "Female"
AgeOf(r) == 2 + ((3 * r) % 5)
IncomeOf(r) == 1 + 2 * (r % 4)
ScoreOf(r) == 2 + 2 * ((r * r) % 4)

CustomerRow(r, ds) ==
    [dataset_id |-> ds, gender |-> GenderOf(r), age |-> AgeOf(r),
     annual_income |-> IncomeOf(r), spending_score |-> ScoreOf(r),
     cluster_label |-> NullLabel]

\* the uploads the model starts from: records 1..n belong to dataset 1 and the
\* others to dataset 2; the upload stores the CSV as it is, so a record may
\* lack a value (here: the age of the last record of the largest dataset;
\* the other ages keep the column a number column)
Uploads ==
    {[n |-> n, unpopulated |-> {}] : n \in 0..MaxRecords}
        \cup {[n |-> MaxRecords, unpopulated |-> {MaxRecords}]}

UploadedRow(r, up) ==
    IF r \in up.unpopulated
    THEN [CustomerRow(r, IF r <= up.n THEN 1 ELSE 2) EXCEPT !.age = NaN]
    ELSE CustomerRow(r, IF r <= up.n THEN 1 ELSE 2)

\* ------------------------------------------------------------- set helpers
Range(f) == {f[x] : x \in DOMAIN f}

RECURSIVE SetToSeq(_)
SetToSeq(S) ==
    IF S = {} THEN <<>>
    ELSE LET m == CHOOSE x \in S : \A y \in S : x <= y
         IN <<m>> \o SetToSeq(S \ {m})

RECURSIVE SumOver(_, _)
SumOver(f, S) ==
    IF S = {} THEN 0
    ELSE LET x == CHOOSE y \in S : TRUE IN f[x] + SumOver(f, S \ {x})

Min(a, b) == IF a <= b THEN a ELSE b

\* ------------------------------------------------------------ error texts
\* str(e) of the exceptions the pipelines and the storage layer raise
ErrModelUnavailable == "ML models are not available. Cannot run analysis."
ErrPredictUnavailable == "ML models are not available. Cannot run prediction."
ErrEmptyStatic == "No customer data found for this dataset to analyze."
ErrEmptyDynamic(ds) == "No customer data found for dataset " \o ToString(ds) \o "."
\* sklearn KMeans parameter and input validation
ErrInvalidNClusters(k) ==
    "The 'n_clusters' parameter of KMeans must be an int in the range [1, inf). Got "
        \o ToString(k) \o " instead."
ErrNoFeatures(n) ==
    "Found array with 0 feature(s) (shape=(" \o ToString(n)
        \o ", 0)) while a minimum of 1 is required by KMeans."
ErrInputNaN == "Input X contains NaN."
ErrTooFewSamples(n, k) ==
    "n_samples=" \o ToString(n) \o " should be >= n_clusters=" \o ToString(k) \o "."
\* storage layer
ErrStorage == "(sqlite3.OperationalError) database is locked"
ErrPendingRollback ==
    "This Session's transaction has been rolled back due to a previous exception during flush."
ErrNoneJob == "'NoneType' object has no attribute 'status'"

\* ----------------------------------------------------------- Model Registry
\* The artifact (ml_models/*.joblib) is a scaler and a 5-centroid k-means model.
ScalerMean == <<3, 4>>
ScalerScale == <<2, 2>>
ModelCenters == << <<-1, -1>>, <<-1, 2>>, <<0, 0>>, <<2, -1>>, <<2, 2>> >>
KnownClusterIds == 0..(Len(ModelCenters) - 1)

\* scaler.transform on one row <<income, score>>
ScalerTransform(x) ==
    [c \in 1..2 |-> (x[c] - ScalerMean[c]) \div ScalerScale[c]]

SqDist(p, q) == (p[1] - q[1]) * (p[1] - q[1]) + (p[2] - q[2]) * (p[2] - q[2])

\* kmeans_model.predict on one scaled row: index of the nearest centroid,
\* the lowest index on a tie (numpy argmin); cluster ids start at 0
ModelPredict(z) ==
    (CHOOSE i \in 1..Len(ModelCenters) :
        /\ \A m \in 1..Len(ModelCenters) :
              SqDist(z, ModelCenters[i]) <= SqDist(z, ModelCenters[m])
        /\ \A m \in 1..(i - 1) :
              SqDist(z, ModelCenters[m]) > SqDist(z, ModelCenters[i])) - 1

\* --------------------------------------------------- Feature Preprocessor
\* feature_map of run_dynamic_segmentation_analysis
FeatureMapKeys == {"Gender", "Age", "Annual Income (k$)", "Spending Score (1-100)"}
feature_map(f) ==
    CASE f = "Gender" -> "gender"
      [] f = "Age" -> "age"
      [] f = "Annual Income (k$)" -> "annual_income"
      [] f = "Spending Score (1-100)" -> "spending_score"

InFeatureMap(f) == f \in FeatureMapKeys

\* faulty variant: the columns are taken in the order of the table, each one
\* once
AnalysisFeatures_table_order(features) ==
    LET wanted(c) == \E i \in DOMAIN features :
                        InFeatureMap(features[i]) /\ feature_map(features[i]) = c
    IN SelectSeq(<<"gender", "age", "annual_income", "spending_score">>, wanted)

\* analysis_features = [feature_map[f] for f in features if f in feature_map]
AnalysisFeatures(features) ==
    LET kept == SelectSeq(features, InFeatureMap)
    IN [i \in 1..Len(kept) |-> feature_map(kept[i])]

\* select_dtypes: Integer columns are numbers, the String column is object
IsNumberColumn(c) == c \in {"age", "annual_income", "spending_score"}
IsObjectColumn(c) == c = "gender"
NumericalFeatures(af) == SelectSeq(af, IsNumberColumn)
CategoricalFeatures(af) == SelectSeq(af, IsObjectColumn)

\* value of a number column in the stored row
NumberValue(row, c) ==
    CASE c = "age" -> row.age
      [] c = "annual_income" -> row.annual_income
      [] c = "spending_score" -> row.spending_score

\* A column of the processed matrix: vals[i] is the entry of row i, and a
\* squared difference d*d of two entries counts wn*d*d/wd in the Euclidean
\* distance.  StandardScaler: z = (x - mean)/std, so (z1 - z2)^2 =
\* (x1 - x2)^2 * n^2 / V with V = n*sum(x^2) - sum(x)^2; a constant column
\* (V = 0) is scaled by 1 and becomes all zero.
ScaledColumn(rows, c) ==
    LET n == Len(rows)
        x == [i \in 1..n |-> NumberValue(rows[i], c)]
        sq == [i \in 1..n |-> x[i] * x[i]]
        V == n * SumOver(sq, 1..n) - SumOver(x, 1..n) * SumOver(x, 1..n)
    IN IF V = 0 THEN [vals |-> [i \in 1..n |-> 0], wn |-> 1, wd |-> 1]
       ELSE [vals |-> x, wn |-> n * n, wd |-> V]

\* OneHotEncoder: one 0/1 column per category present, categories sorted
GenderCategories(rows) ==
    LET present == {rows[i].gender : i \in 1..Len(rows)}
    IN SelectSeq(<<"Female", "Male">>, LAMBDA g : g \in present)

OneHotColumns(rows) ==
    LET cats == GenderCategories(rows)
    IN [j \in 1..Len(cats) |->
          [vals |-> [i \in 1..Len(rows) |-> IF rows[i].gender = cats[j] THEN 1 ELSE 0],
           wn |-> 1, wd |-> 1]]

RECURSIVE FlattenOneHot(_, _)
FlattenOneHot(rows, cf) ==
    IF cf = <<>> THEN <<>>
    ELSE OneHotColumns(rows) \o FlattenOneHot(rows, Tail(cf))

\* ColumnTransformer.fit_transform: the scaled number columns, then the
\* one-hot columns; no column at all when nothing was resolved
Preprocess(rows, af) ==
    LET nf == NumericalFeatures(af)
    IN [j \in 1..Len(nf) |-> ScaledColumn(rows, nf[j])]
         \o FlattenOneHot(rows, CategoricalFeatures(af))

\* ------------------------------------------------------ k-means (dynamic)
\* KMeans(n_clusters=k, random_state=42).fit_predict(X): Lloyd's iteration
\* run to a fixed point.  cols is the processed matrix, n its row count.
RECURSIVE ProductOfWd(_)
ProductOfWd(cols) ==
    IF cols = <<>> THEN 1 ELSE Head(cols).wd * ProductOfWd(Tail(cols))

\* squared distance of row i to the centroid (mean) of the rows in C, times
\* Cardinality(C)^2 * ProductOfWd(cols) so that it stays an integer
ScaledDistToCentroid(cols, i, C) ==
    LET m == Cardinality(C)
        W == ProductOfWd(cols)
        term == [j \in 1..Len(cols) |->
                    LET d == m * cols[j].vals[i] - SumOver(cols[j].vals, C)
                    IN cols[j].wn * (W \div cols[j].wd) * d * d]
    IN SumOver(term, 1..Len(cols))

\* dist(i, centroid of C1) <= dist(i, centroid of C2)
NotFarther(cols, i, C1, C2) ==
    ScaledDistToCentroid(cols, i, C1) * Cardinality(C2) * Cardinality(C2)
        <= ScaledDistToCentroid(cols, i, C2) * Cardinality(C1) * Cardinality(C1)

SameRow(cols, a, b) == \A j \in 1..Len(cols) : cols[j].vals[a] = cols[j].vals[b]

DistinctRowCount(cols, n) ==
    Cardinality({CHOOSE b \in 1..n : SameRow(cols, a, b) : a \in 1..n})

ClusterOf(f, c) == {i \in DOMAIN f : f[i] = c}

\* every row sits in a cluster whose centroid is nearest to it, and no
\* cluster is left empty while there are enough distinct rows
IsLloydFixedPoint(cols, n, k, f) ==
    /\ \A i \in 1..n : \A c \in Range(f) :
          NotFarther(cols, i, ClusterOf(f, f[i]), ClusterOf(f, c))
    /\ Cardinality(Range(f)) = Min(k, DistinctRowCount(cols, n))

\* faulty variant: the clusters are numbered from 1 and every row falls
\* into the first one
KMeansFitPredict_one_based(cols, n, k) == [i \in 1..n |-> 1]

\* one label in 0..k-1 per row; the fixed random_state makes the result a
\* function of the matrix and k
KMeansFitPredict(cols, n, k) ==
    CHOOSE f \in [1..n -> 0..(k - 1)] :
        \E X \in {cols} : IsLloydFixedPoint(X, n, k, f)

\* validation done by KMeans.fit before clustering, in sklearn's order:
\* the parameter n_clusters, then the input array, then n_samples >= k
KMeansError(cols, n, k) ==
    IF k < 1 THEN ErrInvalidNClusters(k)
    ELSE IF Len(cols) = 0 THEN ErrNoFeatures(n)
    ELSE IF n < k THEN ErrTooFewSamples(n, k)
    ELSE None

\* ================================================================== state
VARIABLES
    modelLoaded,    \* kmeans_model and scaler were loaded at import time
    customer_data,  \* table customer_data, committed rows: record id -> row
    analysis_jobs,  \* table analysis_jobs, committed rows: job id -> row
    task,           \* arguments of the background task added for a job
    pc,             \* where the background handler of a job stands
    session,        \* the handler's own SessionLocal()
    local,          \* the handler's locals: job, results_df, the caught error
    escaped,        \* an exception left the handler
    clock,          \* the time datetime.utcnow() and func.now() read; the model
                    \* lets it advance when a job is created
    response        \* the response of the last request, with the ids it asked for

vars == <<modelLoaded, customer_data, analysis_jobs, task, pc, session, local,
          escaped, clock, response>>

NoTask == <<>>
ClosedSession == [open |-> FALSE, broken |-> FALSE, pending |-> <<>>]
NoLocals == [job |-> FALSE, result |-> <<>>, err |-> None, origin |-> None]
NoResponse == [op |-> "none"]

Init ==
    /\ modelLoaded \in BOOLEAN
    /\ \E up \in Uploads :
          customer_data = [r \in RecordIds |-> UploadedRow(r, up)]
    /\ analysis_jobs = <<>>
    /\ task = [j \in JobIds |-> NoTask]
    /\ pc = [j \in JobIds |-> "idle"]
    /\ session = [j \in JobIds |-> ClosedSession]
    /\ local = [j \in JobIds |-> NoLocals]
    /\ escaped = [j \in JobIds |-> FALSE]
    /\ clock = 1
    /\ response = NoResponse

\* ---------------------------------------------------------------- storage
JobExists(j) == j \in DOMAIN analysis_jobs

\* db.query(CustomerData).filter(dataset_id == ds) read into a DataFrame:
\* the committed rows of the dataset, in id order
RowIds(ds) == SetToSeq({r \in RecordIds : customer_data[r].dataset_id = ds})

RowsFor(ds) ==
    LET ids == RowIds(ds)
    IN [i \in 1..Len(ids) |->
          [id |-> ids[i],
           gender |-> customer_data[ids[i]].gender,
           age |-> customer_data[ids[i]].age,
           annual_income |-> customer_data[ids[i]].annual_income,
           spending_score |-> customer_data[ids[i]].spending_score,
           cluster_label |-> customer_data[ids[i]].cluster_label]]

\* faulty variant: the loop stops one row early
UpdatesOf_skip_last(ids, labels, upto) ==
    [r \in {ids[i] : i \in 1..(upto - 1)} |->
        labels[CHOOSE i \in 1..(upto - 1) : ids[i] = r]]

\* the loop of Query.update({"cluster_label": ...}) over the first upto rows:
\* executed in the session's transaction, not yet committed
UpdatesOf(ids, labels, upto) ==
    [r \in {ids[i] : i \in 1..upto} |->
        labels[CHOOSE i \in 1..upto : ids[i] = r]]

AddPending(s, updates) ==
    [s EXCEPT !.pending =
        [r \in (DOMAIN updates) \cup (DOMAIN s.pending) |->
            IF r \in DOMAIN updates THEN updates[r] ELSE s.pending[r]]]

\* faulty variant: every row update is its own transaction and the commit
\* publishes the update of the first pending row only
CommitLabels_first_only(s) ==
    [r \in RecordIds |->
        IF r \in DOMAIN s.pending /\ \A q \in DOMAIN s.pending : r <= q
        THEN [customer_data[r] EXCEPT !.cluster_label = s.pending[r]]
        ELSE customer_data[r]]

\* what a successful commit of the session publishes in customer_data
CommitLabels(s) ==
    [r \in RecordIds |->
        IF r \in DOMAIN s.pending
        THEN [customer_data[r] EXCEPT !.cluster_label = s.pending[r]]
        ELSE customer_data[r]]

AfterCommit(s) == [s EXCEPT !.pending = <<>>]

\* a commit that raised: the transaction is rolled back and stays invalid,
\* any later commit on this session raises as well (no rollback() is called)
AfterFailedCommit(s) == [s EXCEPT !.pending = <<>>, !.broken = TRUE]

\* faulty variant: the distribution records which clusters occur, not how
\* many rows each one has
ClusterDistribution_presence(df) ==
    [key \in {ToString(df[i].cluster_label) : i \in DOMAIN df} |-> 1]

\* value_counts().to_dict() with the keys turned into strings
ClusterDistribution(df) ==
    [key \in {ToString(df[i].cluster_label) : i \in DOMAIN df} |->
        Cardinality({i \in DOMAIN df : ToString(df[i].cluster_label) = key})]

\* ============================================================== endpoints
\* uuid4 never repeats: the next job takes the first id never used
NextJobId == CHOOSE j \in JobIds : pc[j] = "idle" /\ \A i \in 1..(j - 1) : pc[i] # "idle"

NewJob(ds) ==
    [dataset_id |-> ds, status |-> "queued", results |-> NullJson,
     created_at |-> clock, finished_at |-> NullTime]

NotFound(op, req, detail) == [op |-> op, request |-> req, code |-> 404, detail |-> detail]

\* db.add(new_job); db.commit(); db.refresh(new_job); add_task(...); return new_job
CreateAndDispatch(op, req, ds, args) ==
    /\ \E j \in JobIds : pc[j] = "idle"
    /\ LET j == NextJobId IN
        /\ analysis_jobs' =
              [i \in (DOMAIN analysis_jobs) \cup {j} |->
                  IF i = j THEN NewJob(ds) ELSE analysis_jobs[i]]
        /\ task' = [task EXCEPT ![j] = args]
        /\ pc' = [pc EXCEPT ![j] = "dispatched"]
        /\ response' = [op |-> op, request |-> req, code |-> 200, id |-> j,
                        body |-> NewJob(ds)]
    /\ clock' = clock + 1
    /\ UNCHANGED <<modelLoaded, customer_data, session, local, escaped>>

Rejected(r) ==
    /\ response' = r
    /\ UNCHANGED <<modelLoaded, customer_data, analysis_jobs, task, pc, session,
                   local, escaped, clock>>

\* faulty variant: the dataset lookup is missing
run_analysis_on_dataset_no_lookup(company_id, dataset_id) ==
    CreateAndDispatch("run_analysis_on_dataset",
        [company_id |-> company_id, dataset_id |-> dataset_id], dataset_id,
        [mode |-> "static", dataset_id |-> dataset_id])

\* POST /companies/{company_id}/datasets/{dataset_id}/run-analysis/
run_analysis_on_dataset(company_id, dataset_id) ==
    IF ~\E d \in Datasets : d.id = dataset_id /\ d.company_id = company_id
    THEN Rejected(NotFound("run_analysis_on_dataset",
              [company_id |-> company_id, dataset_id |-> dataset_id],
              "Dataset " \o ToString(dataset_id) \o " not found for company "
                  \o ToString(company_id) \o "."))
    ELSE CreateAndDispatch("run_analysis_on_dataset",
              [company_id |-> company_id, dataset_id |-> dataset_id], dataset_id,
              [mode |-> "static", dataset_id |-> dataset_id])

\* POST /datasets/run-dynamic-analysis/
run_dynamic_analysis_job(dataset_id, features, n_clusters) ==
    IF ~\E d \in Datasets : d.id = dataset_id
    THEN Rejected(NotFound("run_dynamic_analysis_job", [dataset_id |-> dataset_id],
              "Dataset ID " \o ToString(dataset_id) \o " not found."))
    ELSE CreateAndDispatch("run_dynamic_analysis_job", [dataset_id |-> dataset_id],
              dataset_id,
              [mode |-> "dynamic", dataset_id |-> dataset_id,
               features |-> features, n_clusters |-> n_clusters])

\* faulty variant: reading a job stamps it with the time of the read
get_job_status_stamps(job_id) ==
    /\ response' =
          IF ~JobExists(job_id)
          THEN NotFound("get_job_status", [job_id |-> job_id],
                        "Job " \o ToString(job_id) \o " not found.")
          ELSE [op |-> "get_job_status", request |-> [job_id |-> job_id],
                code |-> 200, id |-> job_id,
                body |-> analysis_jobs[job_id]]
    /\ analysis_jobs' =
          IF JobExists(job_id)
          THEN [analysis_jobs EXCEPT ![job_id].finished_at = clock]
          ELSE analysis_jobs
    /\ UNCHANGED <<modelLoaded, customer_data, task, pc, session,
                   local, escaped, clock>>

\* GET /analysis-jobs/{job_id}
get_job_status(job_id) ==
    /\ response' =
          IF ~JobExists(job_id)
          THEN NotFound("get_job_status", [job_id |-> job_id],
                        "Job " \o ToString(job_id) \o " not found.")
          ELSE [op |-> "get_job_status", request |-> [job_id |-> job_id],
                code |-> 200, id |-> job_id,
                body |-> analysis_jobs[job_id]]
    /\ UNCHANGED <<modelLoaded, customer_data, analysis_jobs, task, pc, session,
                   local, escaped, clock>>

\* faulty variant: the availability test is missing and the model is used
\* as if it were loaded
predict_single_customer_unchecked(income, score) ==
    [raised |-> FALSE, value |-> ModelPredict(ScalerTransform(<<income, score>>))]

\* analysis_service.predict_single_customer(income, score): the exception it
\* raises, or the cluster id it returns
predict_single_customer(income, score) ==
    IF ~modelLoaded
    THEN [raised |-> TRUE, value |-> ErrPredictUnavailable]
    ELSE [raised |-> FALSE, value |-> ModelPredict(ScalerTransform(<<income, score>>))]

\* POST /predict-live/: the RuntimeError is not caught by the endpoint and
\* reaches the caller as a server error
live_prediction(income, score) ==
    /\ response' =
          LET rq == [annual_income |-> income, spending_score |-> score]
              p == predict_single_customer(income, score)
          IN IF p.raised
             THEN [op |-> "live_prediction", request |-> rq, code |-> 500,
                   detail |-> p.value]
             ELSE [op |-> "live_prediction", request |-> rq, code |-> 200,
                   body |-> [predicted_cluster |-> p.value]]
    /\ UNCHANGED <<modelLoaded, customer_data, analysis_jobs, task, pc, session,
                   local, escaped, clock>>

\* ===================================================== background handlers
OpenSession == [open |-> TRUE, broken |-> FALSE, pending |-> <<>>]

Goto(j, label) == pc' = [pc EXCEPT ![j] = label]

\* an exception raised in the named part of the try block ("start",
\* "pipeline" or "complete") reaches the handler's except clause
Raise(j, origin, msg) ==
    /\ Goto(j, "except")
    /\ local' = [local EXCEPT ![j].err = msg, ![j].origin = origin]

\* faulty variant: the completion time is not stored
SetJob_no_finished_at(j, status, results, finished_at) ==
    [analysis_jobs EXCEPT ![j].status = status, ![j].results = results]

SetJob(j, status, results, finished_at) ==
    [analysis_jobs EXCEPT ![j].status = status, ![j].results = results,
                          ![j].finished_at = finished_at]

\* --------------------------------------------- run_background_analysis
\* faulty variant: a finished job is picked up and run again
run_background_analysis_start_rerun(j) ==
    /\ pc[j] \in {"dispatched", "done"} /\ task[j].mode = "static"
    /\ session' = [session EXCEPT ![j] = OpenSession]
    /\ IF ~JobExists(j)
       THEN /\ Goto(j, "finally")
            /\ UNCHANGED <<analysis_jobs, local>>
       ELSE /\ analysis_jobs' = [analysis_jobs EXCEPT ![j].status = "running"]
            /\ local' = [local EXCEPT ![j].job = TRUE]
            /\ Goto(j, "pipeline")
    /\ UNCHANGED <<modelLoaded, customer_data, task, escaped, clock, response>>

\* db = SessionLocal(); job = query.first(); if not job: return;
\* job.status = "running"; db.commit()
run_background_analysis_start(j) ==
    /\ pc[j] = "dispatched" /\ task[j].mode = "static"
    /\ session' = [session EXCEPT ![j] = OpenSession]
    /\ IF ~JobExists(j)
       THEN /\ Goto(j, "finally")
            /\ UNCHANGED <<analysis_jobs, local>>
       ELSE /\ analysis_jobs' = [analysis_jobs EXCEPT ![j].status = "running"]
            /\ local' = [local EXCEPT ![j].job = TRUE]
            /\ Goto(j, "pipeline")
    /\ UNCHANGED <<modelLoaded, customer_data, task, escaped, clock, response>>

\* analysis_service.run_segmentation_analysis(db, dataset_id), up to and
\* including its db.commit().  In the pipeline actions each intermediate
\* value (the frame, the labels, the updates) is bound by \E over a
\* singleton, so it is computed once.
\* faulty variant: a row that already has a label is moved to the next
\* cluster
StaticLabels_drift(rows) ==
    [i \in 1..Len(rows) |->
        IF rows[i].cluster_label = NullLabel
        THEN ModelPredict(ScalerTransform(<<rows[i].annual_income, rows[i].spending_score>>))
        ELSE (rows[i].cluster_label + 1) % Len(ModelCenters)]

StaticLabels(rows) ==
    [i \in 1..Len(rows) |->
        ModelPredict(ScalerTransform(<<rows[i].annual_income, rows[i].spending_score>>))]

WithLabels(rows, labels) ==
    [i \in 1..Len(rows) |-> [rows[i] EXCEPT !.cluster_label = labels[i]]]

\* faulty variant: the model-availability test is missing
StaticError_no_model_check(rows) ==
    IF Len(rows) = 0 THEN ErrEmptyStatic ELSE None

\* faulty variant: the empty-dataset test comes before the model test
StaticError_empty_first(rows) ==
    IF Len(rows) = 0 THEN ErrEmptyStatic
    ELSE IF ~modelLoaded THEN ErrModelUnavailable
    ELSE None

StaticError(rows) ==
    IF ~modelLoaded THEN ErrModelUnavailable
    ELSE IF Len(rows) = 0 THEN ErrEmptyStatic
    ELSE None

run_segmentation_analysis(j) ==
    /\ pc[j] = "pipeline" /\ task[j].mode = "static"
    /\ \E rows \in {RowsFor(task[j].dataset_id)}, ids \in {RowIds(task[j].dataset_id)} :
       \E err \in {StaticError(rows)} :
       IF err # None
          THEN /\ Raise(j, "pipeline", err)
               /\ UNCHANGED <<customer_data, session>>
          ELSE /\ Goto(j, "summarize")
               /\ \E labels \in {StaticLabels(rows)} :
                  \E updates \in {UpdatesOf(ids, labels, Len(ids))} :
                  \E s \in {AddPending(session[j], updates)} :
                  /\ customer_data' = CommitLabels(s)
                  /\ session' = [session EXCEPT ![j] = AfterCommit(s)]
                  /\ local' = [local EXCEPT ![j].result =
                                  [df |-> WithLabels(rows, labels)]]
    /\ UNCHANGED <<modelLoaded, analysis_jobs, task, escaped, clock, response>>

\* the summary, then job.status = "completed"; job.results = ...;
\* job.finished_at = utcnow(); db.commit()
StaticResults(ds, df) ==
    [summary |-> "Segmentation analysis complete for dataset " \o ToString(ds) \o ".",
     total_records_processed |-> Len(df),
     cluster_distribution |-> ClusterDistribution(df)]

run_background_analysis_complete(j) ==
    /\ pc[j] = "summarize" /\ task[j].mode = "static"
    /\ analysis_jobs' =
          SetJob(j, "completed",
                 StaticResults(task[j].dataset_id, local[j].result.df), clock)
    /\ customer_data' = CommitLabels(session[j])
    /\ session' = [session EXCEPT ![j] = AfterCommit(session[j])]
    /\ Goto(j, "finally")
    /\ UNCHANGED <<modelLoaded, task, local, escaped, clock, response>>

\* faulty variant: the except clause marks every job of the dataset that is
\* not terminal as failed, not only its own
ExceptClause_fails_dataset(j, results) ==
    /\ pc[j] = "except"
    /\ Goto(j, "finally")
    /\ IF ~local[j].job
       THEN UNCHANGED <<analysis_jobs, customer_data, session, escaped>>
       ELSE IF session[j].broken
               THEN /\ escaped' = [escaped EXCEPT ![j] = TRUE]
                    /\ UNCHANGED <<analysis_jobs, customer_data, session>>
               ELSE /\ analysis_jobs' =
                          [i \in DOMAIN analysis_jobs |->
                              IF /\ analysis_jobs[i].dataset_id = task[j].dataset_id
                                 /\ analysis_jobs[i].status \in {"queued", "running"}
                              THEN [analysis_jobs[i] EXCEPT
                                       !.status = "failed", !.results = results,
                                       !.finished_at = clock]
                              ELSE analysis_jobs[i]]
                    /\ customer_data' = CommitLabels(session[j])
                    /\ session' = [session EXCEPT ![j] = AfterCommit(session[j])]
                    /\ UNCHANGED escaped
    /\ UNCHANGED <<modelLoaded, task, local, clock, response>>

\* faulty variant: the except clause sets the job's fields and forgets db.commit()
ExceptClause_no_commit(j, results) ==
    /\ pc[j] = "except"
    /\ Goto(j, "finally")
    /\ UNCHANGED <<modelLoaded, customer_data, analysis_jobs, task, session, local,
                   escaped, clock, response>>

\* faulty variant: the except clause lacks the test "if job": with no job row,
\* job.status = "failed" raises inside the except clause
ExceptClause_no_guard(j, results) ==
    /\ pc[j] = "except"
    /\ Goto(j, "finally")
    /\ IF ~local[j].job \/ session[j].broken
       THEN /\ escaped' = [escaped EXCEPT ![j] = TRUE]
            /\ UNCHANGED <<analysis_jobs, customer_data, session>>
       ELSE /\ analysis_jobs' = SetJob(j, "failed", results, clock)
            /\ customer_data' = CommitLabels(session[j])
            /\ session' = [session EXCEPT ![j] = AfterCommit(session[j])]
            /\ UNCHANGED escaped
    /\ UNCHANGED <<modelLoaded, task, local, clock, response>>

\* except Exception as e: if job: job.status = "failed"; job.results =
\* {"error": str(e)}; job.finished_at = utcnow(); db.commit()
ExceptClause(j, results) ==
    /\ pc[j] = "except"
    /\ Goto(j, "finally")
    /\ IF ~local[j].job
       THEN UNCHANGED <<analysis_jobs, customer_data, session, escaped>>
       ELSE IF session[j].broken
               THEN /\ escaped' = [escaped EXCEPT ![j] = TRUE]
                    /\ UNCHANGED <<analysis_jobs, customer_data, session>>
               ELSE /\ analysis_jobs' = SetJob(j, "failed", results, clock)
                    /\ customer_data' = CommitLabels(session[j])
                    /\ session' = [session EXCEPT ![j] = AfterCommit(session[j])]
                    /\ UNCHANGED escaped
    /\ UNCHANGED <<modelLoaded, task, local, clock, response>>

run_background_analysis_except(j) ==
    /\ pc[j] = "except" /\ task[j].mode = "static"
    /\ ExceptClause(j, [error |-> local[j].err])

\* faulty variant: db.close() stands at the end of the except clause instead of in a
\* finally clause, so an exception that leaves the handler skips it
FinallyClause_skipped(j) ==
    /\ pc[j] = "finally"
    /\ session' = [session EXCEPT ![j] = IF escaped[j] THEN session[j] ELSE ClosedSession]
    /\ local' = [local EXCEPT ![j] = NoLocals]
    /\ Goto(j, "done")
    /\ UNCHANGED <<modelLoaded, customer_data, analysis_jobs, task, escaped, clock,
                   response>>

\* finally: db.close()
FinallyClause(j) ==
    /\ pc[j] = "finally"
    /\ session' = [session EXCEPT ![j] = ClosedSession]
    /\ local' = [local EXCEPT ![j] = NoLocals]
    /\ Goto(j, "done")
    /\ UNCHANGED <<modelLoaded, customer_data, analysis_jobs, task, escaped, clock,
                   response>>

run_background_analysis_finally(j) ==
    /\ pc[j] = "finally" /\ task[j].mode = "static"
    /\ FinallyClause(j)

\* ------------------------------------- run_dynamic_background_analysis
\* db_session = SessionLocal(); job = query.first(); job.status = "running"
\* (an AttributeError when job is None); db_session.commit()
run_dynamic_background_analysis_start(j) ==
    /\ pc[j] = "dispatched" /\ task[j].mode = "dynamic"
    /\ session' = [session EXCEPT ![j] = OpenSession]
    /\ IF ~JobExists(j)
       THEN /\ Raise(j, "start", ErrNoneJob)
            /\ UNCHANGED analysis_jobs
       ELSE /\ analysis_jobs' = [analysis_jobs EXCEPT ![j].status = "running"]
            /\ local' = [local EXCEPT ![j].job = TRUE]
            /\ Goto(j, "pipeline")
    /\ UNCHANGED <<modelLoaded, customer_data, task, escaped, clock, response>>

\* analysis_service.run_dynamic_segmentation_analysis(db, dataset_id,
\* features, n_clusters), up to and including its db.commit()
DynamicMatrix(rows, features) == Preprocess(rows, AnalysisFeatures(features))

\* a selected number column holds a NaN: StandardScaler passes it on
HasNaN(rows, af) ==
    \E i \in DOMAIN rows :
        \E c \in Range(NumericalFeatures(af)) : NumberValue(rows[i], c) = NaN

\* faulty variant: missing values are not detected
DynamicError_nan_accepted(ds, rows, features, k) ==
    IF Len(rows) = 0 THEN ErrEmptyDynamic(ds)
    ELSE KMeansError(DynamicMatrix(rows, features), Len(rows), k)

\* faulty variant: a name that is not in the lookup is looked up all the same
DynamicError_unknown_rejected(ds, rows, features, k) ==
    IF Len(rows) = 0 THEN ErrEmptyDynamic(ds)
    ELSE IF \E i \in DOMAIN features : ~InFeatureMap(features[i]) THEN "KeyError"
    ELSE IF k >= 1 /\ HasNaN(rows, AnalysisFeatures(features)) THEN ErrInputNaN
    ELSE KMeansError(DynamicMatrix(rows, features), Len(rows), k)

\* faulty variant: the dynamic pipeline tests the model registry as the
\* static one does
DynamicError_needs_model(ds, rows, features, k) ==
    IF ~modelLoaded THEN ErrModelUnavailable
    ELSE IF Len(rows) = 0 THEN ErrEmptyDynamic(ds)
    ELSE IF k >= 1 /\ HasNaN(rows, AnalysisFeatures(features)) THEN ErrInputNaN
    ELSE KMeansError(DynamicMatrix(rows, features), Len(rows), k)

\* the error the pipeline raises before its update loop, None if none.
\* KMeans.fit validates its parameters, then the input array (check_array
\* rejects NaN before it looks at the shape), then n_samples >= n_clusters.
DynamicError(ds, rows, features, k) ==
    IF Len(rows) = 0 THEN ErrEmptyDynamic(ds)
    ELSE IF k >= 1 /\ HasNaN(rows, AnalysisFeatures(features)) THEN ErrInputNaN
    ELSE KMeansError(DynamicMatrix(rows, features), Len(rows), k)

DynamicLabels(rows, features, k) ==
    KMeansFitPredict(DynamicMatrix(rows, features), Len(rows), k)

run_dynamic_segmentation_analysis(j) ==
    /\ pc[j] = "pipeline" /\ task[j].mode = "dynamic"
    /\ \E ds \in {task[j].dataset_id}, features \in {task[j].features},
          k \in {task[j].n_clusters} :
       \E rows \in {RowsFor(ds)}, ids \in {RowIds(ds)} :
       \E err \in {DynamicError(ds, rows, features, k)} :
       IF err # None
          THEN /\ Raise(j, "pipeline", err)
               /\ UNCHANGED <<customer_data, session>>
          ELSE /\ Goto(j, "summarize")
               /\ \E labels \in {DynamicLabels(rows, features, k)} :
                  \E updates \in {UpdatesOf(ids, labels, Len(ids))} :
                  \E s \in {AddPending(session[j], updates)} :
                  /\ customer_data' = CommitLabels(s)
                  /\ session' = [session EXCEPT ![j] = AfterCommit(s)]
                  /\ local' = [local EXCEPT ![j].result =
                                  [df |-> WithLabels(rows, labels),
                                   features |-> features,
                                   n_clusters |-> k]]
    /\ UNCHANGED <<modelLoaded, analysis_jobs, task, escaped, clock, response>>

DynamicResults(features, k, df) ==
    [summary |-> <<"Dynamic analysis complete on features: ", features, ".">>,
     features_used |-> features,
     n_clusters |-> k,
     cluster_distribution |-> ClusterDistribution(df)]

run_dynamic_background_analysis_complete(j) ==
    /\ pc[j] = "summarize" /\ task[j].mode = "dynamic"
    /\ analysis_jobs' =
          SetJob(j, "completed",
                 DynamicResults(task[j].features, task[j].n_clusters,
                                local[j].result.df), clock)
    /\ customer_data' = CommitLabels(session[j])
    /\ session' = [session EXCEPT ![j] = AfterCommit(session[j])]
    /\ Goto(j, "finally")
    /\ UNCHANGED <<modelLoaded, task, local, escaped, clock, response>>

\* faulty variant: the error payload of a dynamic job lacks the attribute list
run_dynamic_background_analysis_except_no_features(j) ==
    /\ pc[j] = "except" /\ task[j].mode = "dynamic"
    /\ ExceptClause(j, [error |-> local[j].err])

run_dynamic_background_analysis_except(j) ==
    /\ pc[j] = "except" /\ task[j].mode = "dynamic"
    /\ ExceptClause(j, [error |-> local[j].err,
                        features_attempted |-> task[j].features])

run_dynamic_background_analysis_finally(j) ==
    /\ pc[j] = "finally" /\ task[j].mode = "dynamic"
    /\ FinallyClause(j)

\* ========================================================== specification
Next ==
    \/ \E rq \in StaticRequests : run_analysis_on_dataset(rq[1], rq[2])
    \/ \E d \in DynamicDatasetIds, f \in FeatureRequests, k \in KRequests :
          run_dynamic_analysis_job(d, f, k)
    \/ \E j \in JobIds : get_job_status(j)
    \/ \E rq \in PredictionRequests : live_prediction(rq[1], rq[2])
    \/ \E j \in JobIds : run_background_analysis_start(j)
    \/ \E j \in JobIds : run_segmentation_analysis(j)
    \/ \E j \in JobIds : run_background_analysis_complete(j)
    \/ \E j \in JobIds : run_background_analysis_except(j)
    \/ \E j \in JobIds : run_background_analysis_finally(j)
    \/ \E j \in JobIds : run_dynamic_background_analysis_start(j)
    \/ \E j \in JobIds : run_dynamic_segmentation_analysis(j)
    \/ \E j \in JobIds : run_dynamic_background_analysis_complete(j)
    \/ \E j \in JobIds : run_dynamic_background_analysis_except(j)
    \/ \E j \in JobIds : run_dynamic_background_analysis_finally(j)

Spec == Init /\ [][Next]_vars

\* =========================================================== storage faults
\* A storage write can fail (spec section 7, PersistenceError; with SQLite
\* "database is locked" while another job holds the write lock), and the job
\* row can be gone when the handler starts (the case tested at routes.py:36).

\* the job row is removed from storage before the handler has started
DeleteJobRecord(j) ==
    /\ pc[j] = "dispatched" /\ JobExists(j)
    /\ analysis_jobs' = [i \in (DOMAIN analysis_jobs) \ {j} |-> analysis_jobs[i]]
    /\ UNCHANGED <<modelLoaded, customer_data, task, pc, session, local, escaped,
                   clock, response>>

\* job.status = "running"; db.commit() raises
StartCommitFails(j) ==
    /\ pc[j] = "dispatched" /\ JobExists(j)
    /\ session' = [session EXCEPT ![j] = AfterFailedCommit(OpenSession)]
    /\ local' = [local EXCEPT ![j].job = TRUE, ![j].err = ErrStorage,
                              ![j].origin = "start"]
    /\ Goto(j, "except")
    /\ UNCHANGED <<modelLoaded, customer_data, analysis_jobs, task, escaped, clock,
                   response>>

run_background_analysis_start_fails(j) ==
    /\ pc[j] = "dispatched" /\ task[j].mode = "static"
    /\ StartCommitFails(j)

run_dynamic_background_analysis_start_fails(j) ==
    /\ pc[j] = "dispatched" /\ task[j].mode = "dynamic"
    /\ StartCommitFails(j)

\* the update of row number i raises: the updates of the rows before it stay
\* executed in the open transaction
UpdateFails(j, ids, labels) ==
    /\ Raise(j, "pipeline", ErrStorage)
    /\ \E i \in 1..Len(ids) :
       \E updates \in {UpdatesOf(ids, labels, i - 1)} :
          session' = [session EXCEPT ![j] = AddPending(session[j], updates)]
    /\ UNCHANGED <<modelLoaded, customer_data, analysis_jobs, task, escaped, clock,
                   response>>

\* all rows updated, then the pipeline's db.commit() raises
LabelCommitFails(j) ==
    /\ Raise(j, "pipeline", ErrStorage)
    /\ session' = [session EXCEPT ![j] = AfterFailedCommit(session[j])]
    /\ UNCHANGED <<modelLoaded, customer_data, analysis_jobs, task, escaped, clock,
                   response>>

run_segmentation_analysis_update_fails(j) ==
    /\ pc[j] = "pipeline" /\ task[j].mode = "static"
    /\ \E rows \in {RowsFor(task[j].dataset_id)}, ids \in {RowIds(task[j].dataset_id)} :
        /\ StaticError(rows) = None
        /\ UpdateFails(j, ids, StaticLabels(rows))

run_segmentation_analysis_commit_fails(j) ==
    /\ pc[j] = "pipeline" /\ task[j].mode = "static"
    /\ StaticError(RowsFor(task[j].dataset_id)) = None
    /\ LabelCommitFails(j)

run_dynamic_segmentation_analysis_update_fails(j) ==
    /\ pc[j] = "pipeline" /\ task[j].mode = "dynamic"
    /\ \E rows \in {RowsFor(task[j].dataset_id)}, ids \in {RowIds(task[j].dataset_id)} :
        /\ DynamicError(task[j].dataset_id, rows, task[j].features,
                        task[j].n_clusters) = None
        /\ UpdateFails(j, ids,
                       DynamicLabels(rows, task[j].features, task[j].n_clusters))

run_dynamic_segmentation_analysis_commit_fails(j) ==
    /\ pc[j] = "pipeline" /\ task[j].mode = "dynamic"
    /\ DynamicError(task[j].dataset_id, RowsFor(task[j].dataset_id),
                    task[j].features, task[j].n_clusters) = None
    /\ LabelCommitFails(j)

\* job.status = "completed"; ...; db.commit() raises
CompleteCommitFails(j) ==
    /\ pc[j] = "summarize"
    /\ session' = [session EXCEPT ![j] = AfterFailedCommit(session[j])]
    /\ Raise(j, "complete", ErrStorage)
    /\ UNCHANGED <<modelLoaded, customer_data, analysis_jobs, task, escaped, clock,
                   response>>

run_background_analysis_complete_fails(j) ==
    /\ pc[j] = "summarize" /\ task[j].mode = "static"
    /\ CompleteCommitFails(j)

run_dynamic_background_analysis_complete_fails(j) ==
    /\ pc[j] = "summarize" /\ task[j].mode = "dynamic"
    /\ CompleteCommitFails(j)

\* job.status = "failed"; ...; db.commit() raises inside the except clause:
\* the exception leaves the handler
ExceptCommitFails(j) ==
    /\ pc[j] = "except" /\ local[j].job /\ ~session[j].broken
    /\ session' = [session EXCEPT ![j] = AfterFailedCommit(session[j])]
    /\ escaped' = [escaped EXCEPT ![j] = TRUE]
    /\ Goto(j, "finally")
    /\ UNCHANGED <<modelLoaded, customer_data, analysis_jobs, task, local, clock,
                   response>>

run_background_analysis_except_fails(j) ==
    /\ pc[j] = "except" /\ task[j].mode = "static"
    /\ ExceptCommitFails(j)

run_dynamic_background_analysis_except_fails(j) ==
    /\ pc[j] = "except" /\ task[j].mode = "dynamic"
    /\ ExceptCommitFails(j)

Fault ==
    \/ \E j \in JobIds : DeleteJobRecord(j)
    \/ \E j \in JobIds : run_background_analysis_start_fails(j)
    \/ \E j \in JobIds : run_segmentation_analysis_update_fails(j)
    \/ \E j \in JobIds : run_segmentation_analysis_commit_fails(j)
    \/ \E j \in JobIds : run_background_analysis_complete_fails(j)
    \/ \E j \in JobIds : run_background_analysis_except_fails(j)
    \/ \E j \in JobIds : run_dynamic_background_analysis_start_fails(j)
    \/ \E j \in JobIds : run_dynamic_segmentation_analysis_update_fails(j)
    \/ \E j \in JobIds : run_dynamic_segmentation_analysis_commit_fails(j)
    \/ \E j \in JobIds : run_dynamic_background_analysis_complete_fails(j)
    \/ \E j \in JobIds : run_dynamic_background_analysis_except_fails(j)

FaultNext == Next \/ Fault

\* the program with storage faults
FaultSpec == Init /\ [][FaultNext]_vars

\* every step of the background handler of job j, faults included
HandlerStep(j) ==
    \/ run_background_analysis_start(j)
    \/ run_segmentation_analysis(j)
    \/ run_background_analysis_complete(j)
    \/ run_background_analysis_except(j)
    \/ run_background_analysis_finally(j)
    \/ run_dynamic_background_analysis_start(j)
    \/ run_dynamic_segmentation_analysis(j)
    \/ run_dynamic_background_analysis_complete(j)
    \/ run_dynamic_background_analysis_except(j)
    \/ run_dynamic_background_analysis_finally(j)
    \/ run_background_analysis_start_fails(j)
    \/ run_segmentation_analysis_update_fails(j)
    \/ run_segmentation_analysis_commit_fails(j)
    \/ run_background_analysis_complete_fails(j)
    \/ run_background_analysis_except_fails(j)
    \/ run_dynamic_background_analysis_start_fails(j)
    \/ run_dynamic_segmentation_analysis_update_fails(j)
    \/ run_dynamic_segmentation_analysis_commit_fails(j)
    \/ run_dynamic_background_analysis_complete_fails(j)
    \/ run_dynamic_background_analysis_except_fails(j)

\* ------------------------------------------------ attribute lists at large
\* The dynamic endpoint under every list of up to MaxFeatures different names
\* (features: List[str] is not validated): a first request, and after its job
\* has ended a second one for the same dataset and cluster count, with the
\* same list or with the list without its unrecognized names.
AttributeNames == FeatureMapKeys \cup {"NotARealAttribute"}
ResolveRequests ==
    {f \in UNION {[1..n -> AttributeNames] : n \in 0..MaxFeatures} :
        \A a, b \in DOMAIN f : f[a] = f[b] => a = b}
RecognizedOnly(features) == SelectSeq(features, InFeatureMap)

FirstRequest ==
    /\ pc[1] = "idle"
    /\ \E f \in ResolveRequests, k \in KRequests : run_dynamic_analysis_job(1, f, k)

SecondRequest ==
    /\ pc[1] = "done"
    /\ \E f \in {task[1].features, RecognizedOnly(task[1].features)} :
          run_dynamic_analysis_job(1, f, task[1].n_clusters)

ResolveNext ==
    \/ FirstRequest
    \/ SecondRequest
    \/ \E j \in JobIds : run_dynamic_background_analysis_start(j)
    \/ \E j \in JobIds : run_dynamic_segmentation_analysis(j)
    \/ \E j \in JobIds : run_dynamic_background_analysis_complete(j)
    \/ \E j \in JobIds : run_dynamic_background_analysis_except(j)
    \/ \E j \in JobIds : run_dynamic_background_analysis_finally(j)

ResolveSpec == Init /\ [][ResolveNext]_vars

\* The jobs alone: the requests that create them, the steps of their handlers
\* and the storage faults.  get_job_status is left out: it writes response
\* only, which no handler reads.
JobNext ==
    \/ \E rq \in StaticRequests : run_analysis_on_dataset(rq[1], rq[2])
    \/ \E d \in DynamicDatasetIds, f \in FeatureRequests, k \in KRequests :
          run_dynamic_analysis_job(d, f, k)
    \/ \E j \in JobIds : DeleteJobRecord(j)
    \/ \E j \in JobIds : HandlerStep(j)

\* the worker thread that runs a dispatched task keeps running it: every
\* handler that can take a step eventually takes one
FairFaultSpec == Init /\ [][JobNext]_vars /\ \A j \in JobIds : WF_vars(HandlerStep(j))

\* ================================================================= claims
Status(j) == analysis_jobs[j].status
Terminal(j) == JobExists(j) /\ Status(j) \in {"completed", "failed"}
Created(j) == pc[j] # "idle"
IsStatic(j) == Created(j) /\ task[j].mode = "static"
IsDynamic(j) == Created(j) /\ task[j].mode = "dynamic"
Ended(j) == pc[j] = "done"
DatasetRecords(ds) == {r \in RecordIds : customer_data[r].dataset_id = ds}
LabelOf(r) == customer_data[r].cluster_label

\* ---- C1
ForwardSteps ==
    { <<"queued", "queued">>, <<"queued", "running">>, <<"running", "running">>,
      <<"running", "completed">>, <<"running", "failed">>,
      <<"completed", "completed">>, <<"failed", "failed">> }

\* C1: the committed status of every job starts at queued and moves only
\* queued -> running -> completed or queued -> running -> failed; no step
\* skips running, none goes back, completed and failed never change again.
C1_StatusOrder ==
    [][\A j \in JobIds :
          /\ (~JobExists(j) /\ JobExists(j)') => analysis_jobs'[j].status = "queued"
          /\ (JobExists(j) /\ JobExists(j)') =>
                <<analysis_jobs[j].status, analysis_jobs'[j].status>> \in ForwardSteps
      ]_vars

C1_Witness ==
    \E i, j \in JobIds :
        /\ Terminal(i) /\ Status(i) = "completed"
        /\ Terminal(j) /\ Status(j) = "failed"

\* ---- C2
ResultsMatchStatus(j) ==
    /\ Status(j) \in {"queued", "running"} =>
          analysis_jobs[j].results = NullJson /\ analysis_jobs[j].finished_at = NullTime
    /\ Status(j) \in {"completed", "failed"} =>
          analysis_jobs[j].results # NullJson /\ analysis_jobs[j].finished_at # NullTime

\* C2: in every committed state of a job row, results and finished_at are
\* both unset while the status is queued or running and both set while it is
\* completed or failed, and once set they are never unset.
C2_ResultsWithTerminal ==
    /\ [](\A j \in DOMAIN analysis_jobs : ResultsMatchStatus(j))
    /\ [][\A j \in JobIds :
             (JobExists(j) /\ JobExists(j)' /\ analysis_jobs[j].results # NullJson) =>
                 /\ analysis_jobs'[j].results # NullJson
                 /\ analysis_jobs'[j].finished_at # NullTime
         ]_vars

C2_Witness ==
    \E j \in JobIds :
        /\ Terminal(j) /\ Ended(j)
        /\ analysis_jobs[j].results # NullJson
        /\ analysis_jobs[j].finished_at # NullTime

\* ---- C7
\* C7: a handler holds an open session from its start until it ends and has
\* released it when it has ended, on every exit path.
C7_SessionReleased ==
    \A j \in JobIds :
        /\ pc[j] \in {"idle", "dispatched", "done"} => ~session[j].open
        /\ pc[j] \in {"pipeline", "summarize", "except", "finally"} => session[j].open

\* a handler has ended with a failed job-state commit, its session closed
C7_Witness ==
    \E j \in JobIds : Ended(j) /\ escaped[j] /\ ~session[j].open

\* ---- C3
\* C3 as stated: a job whose handler has ended is completed or failed (after
\* the handler nothing writes the job row, so a job that is not terminal then
\* stays queued or running forever).
C3_Original ==
    \A j \in JobIds : (Ended(j) /\ JobExists(j)) => Terminal(j)

\* C3 amended: every dispatched handler eventually ends; when it has ended
\* the job is completed or failed unless its row was missing when the handler
\* started or a commit of the handler failed and the storage error left the
\* handler, and then the job stays queued or running.
C3_EndsOrStuck ==
    /\ \A j \in JobIds : []<>(pc[j] \in {"idle", "done"})
    /\ [](\A j \in JobIds :
            (Ended(j) /\ JobExists(j)) =>
                IF escaped[j] THEN Status(j) \in {"queued", "running"}
                ELSE Terminal(j))

\* a handler has ended after a failed commit and its job is stuck in running
C3_Witness ==
    \E j \in JobIds : Ended(j) /\ JobExists(j) /\ escaped[j] /\ Status(j) = "running"

\* ---- C4
\* the handler of job j has left its except clause after an error raised by
\* the pipeline
PipelineErrorHandled(j) == pc[j] = "finally" /\ local[j].origin = "pipeline"

ErrorPayload(j) ==
    IF task[j].mode = "static" THEN [error |-> local[j].err]
    ELSE [error |-> local[j].err, features_attempted |-> task[j].features]

FailureRecorded(j) ==
    /\ Status(j) = "failed"
    /\ local[j].err # None
    /\ analysis_jobs[j].results = ErrorPayload(j)
    /\ analysis_jobs[j].finished_at # NullTime

\* C4 as stated: after any error raised by the pipeline nothing has left the
\* handler and the job is failed with the error's message (and the attempted
\* attribute list of a dynamic job) and a completion time.
C4_Original ==
    \A j \in JobIds : PipelineErrorHandled(j) => ~escaped[j] /\ FailureRecorded(j)

\* C4 amended: an error raised by the pipeline is caught by the handler, and
\* the job ends failed with the error's message (and the attempted attribute
\* list of a dynamic job) and a completion time unless the commit of the
\* failed state raises; that storage error leaves the handler and the job
\* stays running with results unset.  A handler that has ended is not run
\* again and its job row does not change any more.
C4_PipelineErrorRecorded ==
    /\ [](\A j \in JobIds :
            PipelineErrorHandled(j) =>
                IF escaped[j]
                THEN /\ session[j].broken
                     /\ Status(j) = "running"
                     /\ analysis_jobs[j].results = NullJson
                     /\ analysis_jobs[j].finished_at = NullTime
                ELSE FailureRecorded(j))
    /\ [][\A j \in JobIds :
             pc[j] \in {"finally", "done"} =>
                 /\ pc'[j] \in {pc[j], "done"}
                 /\ JobExists(j) => JobExists(j)' /\ analysis_jobs'[j] = analysis_jobs[j]
         ]_vars

\* a dynamic job and a static job whose pipeline errors were both recorded
C4_Witness ==
    \E i, j \in JobIds :
        /\ IsDynamic(i) /\ PipelineErrorHandled(i) /\ ~escaped[i] /\ FailureRecorded(i)
        /\ IsStatic(j) /\ Ended(j) /\ JobExists(j) /\ Status(j) = "failed"

\* ---- C5
CreateOps == {"run_analysis_on_dataset", "run_dynamic_analysis_job"}

\* this step is the handling of a job-creation request
CreateRequest ==
    /\ response'.op \in CreateOps
    /\ response' # response \/ clock' # clock

DatasetExists(ds) == \E d \in Datasets : d.id = ds

\* the dataset the request names resolves: it exists and, on the static
\* endpoint, belongs to the company of the path
DatasetResolves(rq) ==
    IF rq.op = "run_analysis_on_dataset"
    THEN \E d \in Datasets :
            d.id = rq.request.dataset_id /\ d.company_id = rq.request.company_id
    ELSE DatasetExists(rq.request.dataset_id)

CreateRejected ==
    /\ response'.code = 404
    /\ analysis_jobs' = analysis_jobs /\ task' = task /\ pc' = pc

CreateAccepted ==
    /\ response'.code = 200
    /\ LET j == response'.id IN
        /\ ~JobExists(j) /\ pc[j] = "idle"
        /\ DOMAIN analysis_jobs' = (DOMAIN analysis_jobs) \cup {j}
        /\ analysis_jobs'[j].dataset_id = response'.request.dataset_id
        /\ analysis_jobs'[j].status = "queued"
        /\ analysis_jobs'[j].results = NullJson
        /\ analysis_jobs'[j].finished_at = NullTime
        /\ response'.body = analysis_jobs'[j]
        /\ pc'[j] = "dispatched"
        /\ \A i \in JobIds \ {j} : pc'[i] = pc[i]

\* C5 as stated: a creation request is rejected exactly when the dataset id
\* does not exist, and for an existing dataset a queued job is persisted.
C5_Original ==
    [][CreateRequest =>
          IF DatasetExists(response'.request.dataset_id)
          THEN CreateAccepted ELSE CreateRejected]_vars

\* C5 amended: a creation request for a dataset id that does not resolve (it
\* does not exist or, on the static endpoint, it does not belong to the
\* company of the path) fails with 404, persists no job and dispatches no
\* work; otherwise a job is persisted with status queued, results and
\* finished_at unset, returned as such, and its handler is dispatched and has
\* not started.
C5_CreateOrNotFound ==
    [][CreateRequest =>
          IF DatasetResolves(response') THEN CreateAccepted ELSE CreateRejected]_vars

\* both outcomes on the static endpoint: a job was created, and the last
\* request, for an existing dataset of another company, was rejected
C5_Witness ==
    /\ \E j \in JobIds : IsStatic(j)
    /\ response.op = "run_analysis_on_dataset" /\ response.code = 404
    /\ DatasetExists(response.request.dataset_id)

\* ---- C6
\* C6: when the job row is gone at the start of the handler, no step of the
\* handler writes a job row or a cluster_label, no exception leaves the
\* handler, and the handler goes on to its end.
C6_MissingJobAborts ==
    /\ [](\A j \in JobIds :
            (Created(j) /\ ~JobExists(j)) =>
                /\ ~escaped[j]
                /\ pc[j] \in {"dispatched", "except", "finally", "done"}
                /\ session[j].pending = <<>>)
    /\ [][\A j \in JobIds :
             (Created(j) /\ ~JobExists(j) /\ pc'[j] # pc[j]) =>
                 /\ analysis_jobs' = analysis_jobs
                 /\ customer_data' = customer_data
                 /\ pc'[j] \in {"except", "finally", "done"}
         ]_vars

\* a static and a dynamic handler have both ended with their job rows gone
C6_Witness ==
    \E i, j \in JobIds :
        /\ IsStatic(i) /\ Ended(i) /\ ~JobExists(i)
        /\ IsDynamic(j) /\ Ended(j) /\ ~JobExists(j)

\* ---- C8
\* a static job on a dataset without rows whose handler has ended and whose
\* job-state commits went through
EmptyStaticEnded(j) ==
    /\ IsStatic(j) /\ Ended(j) /\ JobExists(j) /\ ~escaped[j]
    /\ DatasetRecords(task[j].dataset_id) = {}

\* C8 as stated: a static job on a dataset with 0 rows ends failed with the
\* EmptyDataset error whether or not the model is loaded.
C8_Original ==
    \A j \in JobIds :
        EmptyStaticEnded(j) =>
            Status(j) = "failed" /\ analysis_jobs[j].results.error = ErrEmptyStatic

\* C8 amended: the model-availability check comes first; a static job on a
\* dataset with 0 rows ends failed with the EmptyDataset error when the model
\* is loaded and with the ModelUnavailable error when it is not.
C8_EmptyAfterModelCheck ==
    \A j \in JobIds :
        EmptyStaticEnded(j) =>
            /\ Status(j) = "failed"
            /\ analysis_jobs[j].results.error =
                  IF modelLoaded THEN ErrEmptyStatic ELSE ErrModelUnavailable

\* one such job has ended with the model loaded
C8_Witness ==
    \E j \in JobIds :
        EmptyStaticEnded(j) /\ modelLoaded /\ analysis_jobs[j].results.error = ErrEmptyStatic

\* ---- C9
\* the step of job j in which the static pipeline returns
StaticPipelineReturns(j) ==
    IsStatic(j) /\ pc[j] = "pipeline" /\ pc'[j] = "summarize"

KnownClusterKeys == {ToString(c) : c \in KnownClusterIds}

NothingResolvedEnded(j) ==
    /\ IsDynamic(j) /\ Ended(j)
    /\ AnalysisFeatures(task[j].features) = <<>>
    /\ DatasetRecords(task[j].dataset_id) # {}

\* the errors that KMeans itself raises when it is handed the matrix
ClusteringErrors(j) ==
    LET n == Cardinality(DatasetRecords(task[j].dataset_id))
        k == task[j].n_clusters
    IN {ErrInvalidNClusters(k), ErrNoFeatures(n), ErrTooFewSamples(n, k)}

\* C10: a dynamic job none of whose requested attributes resolves ends
\* failed with an error raised before clustering is attempted on the empty
\* feature matrix (not an error of the clustering call), and no
\* cluster_label of the dataset is changed.
C10_FailsBeforeClustering ==
    \A j \in JobIds :
        NothingResolvedEnded(j) =>
            /\ Status(j) = "failed"
            /\ analysis_jobs[j].results.error \notin ClusteringErrors(j)

\* ---- C11
\* a static job whose handler has ended
StaticEnded(j) == IsStatic(j) /\ Ended(j)

\* the last request was a live prediction
PredictionAnswered == response.op = "live_prediction"

\* C11: the availability of the model never changes after load; while it is
\* unavailable every static job ends failed with the ModelUnavailable error
\* and every live prediction fails with the ModelUnavailable error, and no
\* step of such a static job changes a cluster_label.
C11_UnavailableForever ==
    /\ [][modelLoaded' = modelLoaded]_vars
    /\ [](~modelLoaded =>
            /\ \A j \in JobIds :
                  StaticEnded(j) =>
                      /\ Status(j) = "failed"
                      /\ analysis_jobs[j].results.error = ErrModelUnavailable
            /\ PredictionAnswered =>
                  response.code = 500 /\ response.detail = ErrPredictUnavailable)
    /\ [][\A j \in JobIds :
             (~modelLoaded /\ IsStatic(j) /\ pc'[j] # pc[j]) =>
                 customer_data' = customer_data
         ]_vars

\* with no model loaded a static job on a dataset that has rows has ended
\* failed and the last live prediction was refused
C11_Witness ==
    /\ ~modelLoaded
    /\ \E j \in JobIds :
          /\ StaticEnded(j) /\ Status(j) = "failed"
          /\ DatasetRecords(task[j].dataset_id) # {}
    /\ PredictionAnswered /\ response.code = 500

\* ---- C12
\* this step is a step of the background handler of job j and of no other
OwnHandlerStep(j) ==
    /\ pc[j] \in {"dispatched", "summarize", "except"}
    /\ pc'[j] # pc[j]
    /\ \A i \in JobIds \ {j} : pc'[i] = pc[i]

\* C12: the status, results and finished_at of a job row change only in a
\* step of the background handler dispatched for that job; the pipelines,
\* the live predictor, get_job_status and the handlers of other jobs, also
\* when they fail, leave the row as it is.
C12_OnlyOwnHandlerWrites ==
    [][\A j \in JobIds :
          (JobExists(j) /\ JobExists(j)' /\ analysis_jobs'[j] # analysis_jobs[j]) =>
              /\ OwnHandlerStep(j)
              /\ analysis_jobs'[j].dataset_id = analysis_jobs[j].dataset_id
              /\ analysis_jobs'[j].created_at = analysis_jobs[j].created_at
      ]_vars

\* two jobs on the same dataset: one has ended failed while the other is
\* still running, its row untouched
C12_Witness ==
    \E i, j \in JobIds :
        /\ i # j /\ JobExists(i) /\ JobExists(j)
        /\ analysis_jobs[i].dataset_id = analysis_jobs[j].dataset_id
        /\ Ended(i) /\ Status(i) = "failed"
        /\ pc[j] = "pipeline" /\ Status(j) = "running"
        /\ analysis_jobs[j].results = NullJson

\* ---- C13
\* the label the pipeline of job j assigns to every record of its dataset
JobLabels(j) ==
    LET rows == RowsFor(task[j].dataset_id)
        ids == RowIds(task[j].dataset_id)
        labels == IF task[j].mode = "static" THEN StaticLabels(rows)
                  ELSE DynamicLabels(rows, task[j].features, task[j].n_clusters)
    IN UpdatesOf(ids, labels, Len(ids))

\* this step is the label commit of the pipeline of job j
LabelCommitOf(j) == Created(j) /\ pc[j] = "pipeline" /\ pc'[j] = "summarize"

\* every job created for dataset ds has ended
AllEnded(ds) ==
    \A j \in JobIds : (Created(j) /\ task[j].dataset_id = ds) => Ended(j)

CarriesLabelsOf(j) ==
    \A r \in DatasetRecords(task[j].dataset_id) : LabelOf(r) = JobLabels(j)[r]

\* the error the pipeline of job j raises on the stored rows, None if none
JobError(j) ==
    IF task[j].mode = "static" THEN StaticError(RowsFor(task[j].dataset_id))
    ELSE DynamicError(task[j].dataset_id, RowsFor(task[j].dataset_id),
                      task[j].features, task[j].n_clusters)

JobsOn(ds) == {j \in JobIds : Created(j) /\ task[j].dataset_id = ds}

\* C13: once several jobs on one dataset have all ended, the records of the
\* dataset carry the labels of one run (the last one that committed labels),
\* or no label when no run wrote any: never a mix of labels from different
\* runs.
C13_LastWriterWins ==
    \A d \in Datasets :
        (Cardinality(JobsOn(d.id)) > 1 /\ AllEnded(d.id)) =>
            \/ \A r \in DatasetRecords(d.id) : LabelOf(r) = NullLabel
            \/ \E j \in JobsOn(d.id) : JobError(j) = None /\ CarriesLabelsOf(j)

\* C14: the label write-back of a run is all-or-nothing: labels become
\* visible in storage only in the step in which a pipeline's own commit
\* succeeds; a run that raised before its commit publishes none of its
\* updates, also when its handler commits the failed status afterwards.
C14_AllOrNothing ==
    [][customer_data' # customer_data => \E j \in JobIds : LabelCommitOf(j)]_vars

\* ---- C15
Completed(j) == Created(j) /\ JobExists(j) /\ Status(j) = "completed"

RowCount(j) == Cardinality(DatasetRecords(task[j].dataset_id))

DistributionTotal(j) ==
    SumOver(analysis_jobs[j].results.cluster_distribution,
            DOMAIN analysis_jobs[j].results.cluster_distribution)

\* C15 as stated: every completed job, static or dynamic, has a summary,
\* total_records_processed equal to the row count and a cluster_distribution
\* summing to it; a dynamic job has the attribute list and cluster count too.
C15_Original ==
    \A j \in JobIds :
        Completed(j) =>
            /\ {"summary", "total_records_processed", "cluster_distribution"}
                   \subseteq DOMAIN analysis_jobs[j].results
            /\ analysis_jobs[j].results.total_records_processed = RowCount(j)
            /\ DistributionTotal(j) = RowCount(j)
            /\ IsDynamic(j) =>
                   {"features_used", "n_clusters"} \subseteq DOMAIN analysis_jobs[j].results

\* C15: a completed static job has exactly a summary, total_records_processed
\* equal to the row count of its dataset and a cluster_distribution; a
\* completed dynamic job has exactly a summary, the requested attribute list,
\* the requested cluster count and a cluster_distribution, and no
\* total_records_processed; in both the distribution's counts sum to the row
\* count.
C15_CompletedResults ==
    \A j \in JobIds :
        Completed(j) =>
            /\ DistributionTotal(j) = RowCount(j)
            /\ IF IsStatic(j)
               THEN /\ DOMAIN analysis_jobs[j].results =
                          {"summary", "total_records_processed", "cluster_distribution"}
                    /\ analysis_jobs[j].results.total_records_processed = RowCount(j)
               ELSE /\ DOMAIN analysis_jobs[j].results =
                          {"summary", "features_used", "n_clusters", "cluster_distribution"}
                    /\ analysis_jobs[j].results.features_used = task[j].features
                    /\ analysis_jobs[j].results.n_clusters = task[j].n_clusters

\* a static and a dynamic job have both completed on a dataset of MaxRecords
\* rows
C15_Witness ==
    \E j, i \in JobIds :
        /\ Completed(j) /\ IsStatic(j) /\ RowCount(j) = MaxRecords
        /\ Completed(i) /\ IsDynamic(i) /\ RowCount(i) = MaxRecords

\* ---- C16
\* C16: the attribute list the dynamic pipeline returns, and the list a
\* completed dynamic job records as used, is the resolved attribute list:
\* the requested names found in the attribute lookup, translated, in request
\* order, without the unrecognized names.
C16_ResolvedListRecorded ==
    \A j \in JobIds :
        /\ (IsDynamic(j) /\ pc[j] = "summarize") =>
               local[j].result.features = AnalysisFeatures(task[j].features)
        /\ (IsDynamic(j) /\ Completed(j)) =>
               analysis_jobs[j].results.features_used = AnalysisFeatures(task[j].features)

\* ---- C17
\* the step of job j in which the dynamic pipeline returns
DynamicPipelineReturns(j) ==
    IsDynamic(j) /\ pc[j] = "pipeline" /\ pc'[j] = "summarize"

\* a dynamic job on n >= 1 rows with a resolved attribute and 1 <= k <= n
Clusterable(j) ==
    /\ IsDynamic(j)
    /\ RowCount(j) >= 1
    /\ AnalysisFeatures(task[j].features) # <<>>
    /\ 1 <= task[j].n_clusters /\ task[j].n_clusters <= RowCount(j)

\* every resolved attribute has a value in every row of the job's dataset
Populated(j) ==
    ~HasNaN(RowsFor(task[j].dataset_id), AnalysisFeatures(task[j].features))

\* the dataset's records get labels in 0..k-1 and no other record changes
LabelsWithinK(j) ==
    \A r \in RecordIds :
        IF r \in DatasetRecords(task[j].dataset_id)
        THEN /\ LabelOf(r)' \in 0..(task[j].n_clusters - 1)
             /\ customer_data'[r] =
                   [customer_data[r] EXCEPT !.cluster_label = LabelOf(r)']
        ELSE customer_data'[r] = customer_data[r]

CompletedWithinK(j) ==
    /\ JobExists(j) /\ Status(j) = "completed"
    /\ Cardinality(DOMAIN analysis_jobs[j].results.cluster_distribution)
           <= task[j].n_clusters
    /\ DistributionTotal(j) = RowCount(j)

\* C17 as stated: a dynamic job on n >= 1 rows with a resolved attribute and
\* 1 <= k <= n ends completed with at most k distribution keys summing to n.
C17_Original ==
    \A j \in JobIds : (Clusterable(j) /\ Ended(j)) => CompletedWithinK(j)

\* C17: a dynamic job on n >= 1 rows with a resolved attribute, 1 <= k <= n
\* and a value for every resolved attribute in every row ends completed,
\* its pipeline gives every record of the dataset one label in 0..k-1, and
\* cluster_distribution has at most k keys whose counts sum to n; when a
\* resolved number attribute lacks a value in some row the job ends failed
\* with the clustering's input error and writes no label.
C17_ClusterableCompletes ==
    /\ [](\A j \in JobIds :
            (Clusterable(j) /\ Ended(j)) =>
                IF Populated(j)
                THEN CompletedWithinK(j)
                ELSE /\ JobExists(j) /\ Status(j) = "failed"
                     /\ analysis_jobs[j].results.error = ErrInputNaN)
    /\ [][\A j \in JobIds :
             /\ (DynamicPipelineReturns(j) /\ Clusterable(j)) =>
                    Populated(j) /\ LabelsWithinK(j)
             /\ (pc'[j] # pc[j] /\ Clusterable(j) /\ ~Populated(j)) =>
                    customer_data' = customer_data
         ]_vars

\* a dynamic job with k = MaxK on MaxRecords populated rows has completed
\* with MaxK clusters in its distribution
C17_Witness ==
    \E j \in JobIds :
        /\ Clusterable(j) /\ Populated(j) /\ Ended(j)
        /\ task[j].n_clusters = MaxK /\ RowCount(j) = MaxRecords
        /\ CompletedWithinK(j)
        /\ Cardinality(DOMAIN analysis_jobs[j].results.cluster_distribution) = MaxK

\* ---- C18
AllInClusterZero(j) ==
    analysis_jobs[j].results.cluster_distribution = (ToString(0) :> RowCount(j))

\* C18 as stated, for k = 1: a dynamic run with k = 1 on a non-empty dataset
\* with a resolved attribute assigns every row to cluster 0.
C18_Original ==
    \A j \in JobIds :
        (Clusterable(j) /\ task[j].n_clusters = 1 /\ Ended(j)) =>
            Completed(j) /\ AllInClusterZero(j)

\* C18: a dynamic job requested with k < 1 is accepted but never reaches
\* completed and no step of it changes a cluster_label; a dynamic run with
\* k = 1 on a non-empty dataset with a resolved attribute and a value for
\* every resolved attribute in every row assigns every row to cluster 0 and
\* completes with all rows counted under cluster 0; with a missing value it
\* assigns nothing.
C18_PositiveK ==
    /\ [](\A j \in JobIds :
            /\ (IsDynamic(j) /\ task[j].n_clusters < 1) => ~Completed(j)
            /\ (Clusterable(j) /\ task[j].n_clusters = 1 /\ Ended(j)) =>
                   IF Populated(j)
                   THEN Completed(j) /\ AllInClusterZero(j)
                   ELSE ~Completed(j))
    /\ [][\A j \in JobIds :
             /\ (IsDynamic(j) /\ task[j].n_clusters < 1 /\ pc'[j] # pc[j]) =>
                    customer_data' = customer_data
             /\ (DynamicPipelineReturns(j) /\ task[j].n_clusters = 1) =>
                    /\ Populated(j)
                    /\ \A r \in DatasetRecords(task[j].dataset_id) : LabelOf(r)' = 0
         ]_vars

\* a job requested with k = 0 has ended failed on the rows that a job with
\* k = 1 has put into cluster 0
C18_Witness ==
    \E j, i \in JobIds :
        /\ IsDynamic(j) /\ task[j].n_clusters = 0 /\ Ended(j)
        /\ JobExists(j) /\ Status(j) = "failed"
        /\ analysis_jobs[j].results.error = ErrInvalidNClusters(0)
        /\ Clusterable(i) /\ task[i].n_clusters = 1 /\ Completed(i)
        /\ RowCount(i) = MaxRecords /\ AllInClusterZero(i)
        /\ \A r \in DatasetRecords(task[i].dataset_id) : LabelOf(r) = 0

\* ---- C19
\* this step is a live prediction that produced a new response
PredictionStep == response' # response /\ response'.op = "live_prediction"

\* C19: a live prediction fails with the ModelUnavailable error when no model
\* is loaded and otherwise returns one of the model's known cluster ids
\* (0..4); in both cases it creates no job and changes no job record and no
\* cluster_label.
C19_PredictionOnly ==
    /\ [](PredictionAnswered =>
            IF ~modelLoaded
            THEN response.code = 500 /\ response.detail = ErrPredictUnavailable
            ELSE /\ response.code = 200
                 /\ response.body.predicted_cluster \in KnownClusterIds
                 /\ KnownClusterIds = 0..4)
    /\ [][PredictionStep =>
             /\ analysis_jobs' = analysis_jobs
             /\ customer_data' = customer_data
             /\ pc' = pc /\ task' = task /\ session' = session
         ]_vars

\* a prediction was answered with a cluster id after a job had completed
C19_Witness ==
    /\ PredictionAnswered /\ modelLoaded /\ response.code = 200
    /\ response.body.predicted_cluster \in KnownClusterIds
    /\ \E j \in JobIds : Completed(j)

\* ---- C20
OnDatasetOf(j, r) == task[j].dataset_id = customer_data[r].dataset_id

\* C20: a record's cluster_label is None from creation and changes only when
\* a pipeline run commits labels for its dataset; every committed pipeline
\* run, of either mode, gives every record of the dataset its label whatever
\* the previous value; and no step resets a label to None.
C20_LabelLifecycle ==
    /\ \A r \in RecordIds : LabelOf(r) = NullLabel
    /\ [][\A r \in RecordIds :
             /\ LabelOf(r)' # LabelOf(r) =>
                    \E j \in JobIds : LabelCommitOf(j) /\ OnDatasetOf(j, r)
             /\ \A j \in JobIds :
                    (LabelCommitOf(j) /\ OnDatasetOf(j, r)) =>
                        LabelOf(r)' = JobLabels(j)[r] /\ LabelOf(r)' # NullLabel
             /\ LabelOf(r)' = NullLabel => LabelOf(r) = NullLabel
         ]_vars

\* ---- C21
\* only static jobs were created, so nothing but static runs wrote labels
OnlyStaticJobs == \A j \in JobIds : Created(j) => IsStatic(j)

\* C21: re-running the static pipeline on an unchanged dataset with the same
\* model reproduces the labels: once a static job has completed, the label
\* commit of another static job leaves every cluster_label as it is, and two
\* completed static jobs report the same cluster_distribution.
C21_StaticRerunSame ==
    /\ [](\A j, i \in JobIds :
            (IsStatic(j) /\ Completed(j) /\ IsStatic(i) /\ Completed(i)) =>
                analysis_jobs[j].results.cluster_distribution =
                    analysis_jobs[i].results.cluster_distribution)
    /\ [][\A j, i \in JobIds :
             (OnlyStaticJobs /\ StaticPipelineReturns(j) /\ Completed(i)) =>
                 customer_data' = customer_data
         ]_vars

\* two static jobs have completed one after the other on MaxRecords rows, and
\* every record is labelled
C21_Witness ==
    \E j, i \in JobIds :
        /\ j # i /\ IsStatic(j) /\ Completed(j) /\ IsStatic(i) /\ Completed(i)
        /\ analysis_jobs[j].finished_at <= analysis_jobs[i].created_at
        /\ RowCount(j) = MaxRecords
        /\ \A r \in DatasetRecords(task[j].dataset_id) : LabelOf(r) # NullLabel

\* ---- C22
\* af lists the storage names of the recognized names of f, one for each
\* occurrence, in the order of their occurrence
IsOrderedResolution(f, af) ==
    LET pos == {i \in DOMAIN f : f[i] \in FeatureMapKeys}
    IN /\ Len(af) = Cardinality(pos)
       /\ \A i \in pos :
             af[Cardinality({p \in pos : p <= i})] = feature_map(f[i])

\* C22: attribute resolution is deterministic and order-preserving: two jobs
\* requested with the same attribute list resolve it to the same sequence of
\* storage names, which has one name for each recognized name of the request,
\* in request order.
C22_ResolutionOrdered ==
    \A j, i \in JobIds :
        (IsDynamic(j) /\ IsDynamic(i) /\ task[j].features = task[i].features) =>
            /\ AnalysisFeatures(task[j].features) = AnalysisFeatures(task[i].features)
            /\ IsOrderedResolution(task[i].features, AnalysisFeatures(task[j].features))

\* the same list, with two recognized names against the table's column order
\* around an unrecognized one, was requested twice and both jobs have ended
C22_Witness ==
    \E j, i \in JobIds :
        /\ j # i /\ IsDynamic(j) /\ IsDynamic(i) /\ Ended(j) /\ Ended(i)
        /\ task[j].features = <<"Age", "NotARealAttribute", "Gender">>
        /\ task[i].features = task[j].features
        /\ AnalysisFeatures(task[i].features) = <<"age", "gender">>

\* ---- C23
\* this step is a read of job j that produced a new response
PollStep(j) ==
    /\ response' # response
    /\ response'.op = "get_job_status" /\ response'.request = [job_id |-> j]

\* C23: get_job fails with JobNotFound for an id that was never created and
\* otherwise returns the job with its committed status, results and
\* timestamps of that moment; it changes no job record and nothing else a
\* handler reads, so polling does not alter a job's outcome.
C23_PollingReadsOnly ==
    [][\A j \in JobIds :
          PollStep(j) =>
              /\ IF ~Created(j)
                 THEN response'.code = 404
                 ELSE /\ response'.code = 200 /\ response'.id = j
                      /\ response'.body = analysis_jobs[j]
              /\ UNCHANGED <<modelLoaded, customer_data, analysis_jobs, task, pc,
                             session, local, escaped, clock>>
      ]_vars

\* a job that has completed was read and the response shows its stored row
C23_Witness ==
    \E j \in JobIds :
        /\ Completed(j) /\ Ended(j)
        /\ response.op = "get_job_status" /\ response.code = 200
        /\ response.id = j /\ response.body = analysis_jobs[j]

\* ---- C24
\* j and i are dynamic jobs on one dataset whose requests have the same
\* cluster count and the same recognized names in the same order
SameRecognized(j, i) ==
    /\ IsDynamic(j) /\ IsDynamic(i)
    /\ task[j].dataset_id = task[i].dataset_id
    /\ task[j].n_clusters = task[i].n_clusters
    /\ RecognizedOnly(task[j].features) = RecognizedOnly(task[i].features)

AllLabelled(ds) == \A r \in DatasetRecords(ds) : LabelOf(r) # NullLabel

\* C25: within a job the pipeline's label commit comes before the commit of
\* the completed status: the status becomes completed only in the handler's
\* step after the pipeline has returned, when every record of the dataset is
\* labelled, and in every state where a job is completed every record of its
\* dataset has a non-null cluster_label.
C25_LabelsBeforeCompleted ==
    /\ [](\A j \in JobIds :
            Completed(j) => RowCount(j) >= 1 /\ AllLabelled(task[j].dataset_id))
    /\ [][\A j \in JobIds :
             (~Completed(j) /\ Completed(j)') =>
                 pc[j] = "summarize" /\ AllLabelled(task[j].dataset_id)
         ]_vars

\* a job has just committed its completed status on MaxRecords labelled rows
C25_Witness ==
    \E j \in JobIds :
        /\ Completed(j) /\ pc[j] = "finally"
        /\ RowCount(j) = MaxRecords /\ AllLabelled(task[j].dataset_id)

\* ---- C26
\* this step stores the failed status of job j
BecomesFailed(j) ==
    /\ JobExists(j) /\ Status(j) # "failed"
    /\ j \in DOMAIN analysis_jobs' /\ analysis_jobs'[j].status = "failed"

\* C26: a job that ends failed has changed no cluster_label: the step that
\* stores the failed status publishes no label, and a job whose pipeline has
\* committed labels does not end failed.
C26_FailedChangedNothing ==
    [][\A j \in JobIds :
          BecomesFailed(j) =>
              /\ customer_data' = customer_data
              /\ local[j].origin # "complete"
      ]_vars

\* ---- C27
StaticFailedUnavailable(j) ==
    /\ JobExists(j) /\ Status(j) = "failed"
    /\ analysis_jobs[j].results.error = ErrModelUnavailable

\* C27 as stated: with the model unavailable a dynamic job on n >= 1 rows
\* with a resolved attribute and 1 <= k <= n still ends completed, while a
\* static job on the same dataset ends failed.
C27_Original ==
    ~modelLoaded =>
        \A j \in JobIds :
            /\ (Clusterable(j) /\ Ended(j)) => Completed(j)
            /\ (IsStatic(j) /\ Ended(j)) => StaticFailedUnavailable(j)

\* C27: the dynamic pipeline does not use the Model Registry: with the model
\* unavailable a dynamic job on n >= 1 rows with a resolved attribute,
\* 1 <= k <= n and a value for every resolved attribute in every row ends
\* completed (failed with the clustering's input error when a value is
\* missing, as with the model loaded), while a static job on the same dataset
\* ends failed with the ModelUnavailable error.
C27_DynamicWithoutModel ==
    ~modelLoaded =>
        \A j \in JobIds :
            /\ (Clusterable(j) /\ Ended(j)) =>
                   IF Populated(j)
                   THEN CompletedWithinK(j)
                   ELSE /\ JobExists(j) /\ Status(j) = "failed"
                        /\ analysis_jobs[j].results.error = ErrInputNaN
            /\ (IsStatic(j) /\ Ended(j)) => StaticFailedUnavailable(j)

\* with no model loaded a dynamic job has completed and a static job has
\* failed on the same MaxRecords rows
C27_Witness ==
    /\ ~modelLoaded
    /\ \E j, i \in JobIds :
          /\ Clusterable(j) /\ Populated(j) /\ Ended(j) /\ Completed(j)
          /\ RowCount(j) = MaxRecords
          /\ IsStatic(i) /\ Ended(i) /\ StaticFailedUnavailable(i)
          /\ task[i].dataset_id = task[j].dataset_id

====
